---- MODULE Spec2Model ----
(***************************************************************************)
(* Tour of Heroes: the data-access service (HeroService), the search       *)
(* pipeline (HeroSearchComponent), the list view (HeroesComponent) and the *)
(* detail view (HeroDetailComponent), as one state machine.                *)
(*                                                                         *)
(* Strings that the code inspects character by character (search terms,    *)
(* hero names: String.trim) are sequences of one-character strings.        *)
(* Time is counted in milliseconds and advances in steps of TickMs.        *)
(* Timers are punctual: a due debounce timer fires before more time passes *)
(* and before an input event of the same instant is handled.               *)
(***************************************************************************)
EXTENDS Integers, Sequences, FiniteSets, TLC

\* ------------------------------------------------------------------ bounds
MaxPushes == 3      \* calls of HeroSearchComponent.search
MaxCalls == 2       \* calls of HeroesComponent.add / delete
MaxSaves == 2       \* calls of HeroDetailComponent.save / goBack
MaxViewEvents == 3  \* user events (a view opened, add, delete, save, goBack)
                    \* when the list view and the detail view run together
MaxEvents == 2      \* user events (a view opened, search, add, delete,
                    \* save) when the three components run together

\* ------------------------------------------------------- program constants
DebounceMs == 300                  \* debounceTime(300)
TickMs == DebounceMs \div 3        \* granularity of the model's clock
NoTimer == 0 - 1                   \* the debounce timer is not armed

heroesUrl == "api/heroes"

\* ------------------------------------------------------------ input values
WhiteSpace == {" ", "\t"}
Terms == {<<>>, <<" ">>, <<"a">>, <<"b">>}
Names == {<<>>, <<" ", "\t">>, <<" ", "W", " ">>, <<"W">>}
ServerIds == {1, 2}
Errors == {"Http failure response"}

Undefined == [undefined |-> TRUE]
NoBody == [none |-> TRUE]

VARIABLES
    \* HeroSearchComponent pipeline
    timer,          \* debounceTime: ms until the armed timer fires, or NoTimer
    lastValue,      \* debounceTime: the pending value [term, push]
    first,          \* distinctUntilChanged: nothing was let through yet
    prevKey,        \* distinctUntilChanged: the last value let through
    innerSubs,      \* switchMap: rids of the inner observables subscribed
    emitted,        \* what the subscriber of heroes$ has received, in order
    \* HeroService / HttpClient / MessageService
    requests,       \* HTTP requests sent whose response has not arrived
    nextRid,        \* next request id
    messages,       \* MessageService.messages
    \* HeroesComponent
    activated,      \* ngOnInit has run
    heroes,         \* HeroesComponent.heroes
    nextRef,        \* next object identity
    objects,        \* every Hero object handed to the component so far
    \* HeroDetailComponent
    detailInit,     \* ngOnInit has run
    hero,           \* HeroDetailComponent.hero
    backs,          \* number of Location.back() calls
    \* observation (history) variables
    sincePush,      \* ms since the latest search() call, capped at DebounceMs
    sinceQuery,     \* ms since the latest searchHeroes invocation, capped alike
    pushes,         \* every search() call: [term, gap]
    survivors,      \* every value debounceTime emitted: [term, push, queried]
    queries,        \* every searchHeroes invocation: [term, push, rid, gap]
    discarded,      \* every search response that arrived unsubscribed
    sent,           \* every HTTP request ever sent, in order
    calls,          \* every add/delete/save call and what it did
    settled         \* every delivery to a subscriber of a HeroService call

searchVars == <<timer, lastValue, first, prevKey, innerSubs, emitted,
                sincePush, sinceQuery, pushes, survivors, queries, discarded>>
serviceVars == <<requests, nextRid, messages, sent, settled>>
heroesVars == <<activated, heroes, nextRef, objects>>
detailVars == <<detailInit, hero, backs>>
vars == <<searchVars, serviceVars, heroesVars, detailVars, calls>>

\* ------------------------------------------------------------------ helpers
Min(a, b) == IF a < b THEN a ELSE b
Max(a, b) == IF a > b THEN a ELSE b
Range(seq) == {seq[i] : i \in 1..Len(seq)}

RECURSIVE trimStart(_)
trimStart(s) ==
    IF s = <<>> THEN s
    ELSE IF Head(s) \in WhiteSpace THEN trimStart(Tail(s)) ELSE s

RECURSIVE trimEnd(_)
trimEnd(s) ==
    IF s = <<>> THEN s
    ELSE IF s[Len(s)] \in WhiteSpace THEN trimEnd(SubSeq(s, 1, Len(s) - 1)) ELSE s

\* String.prototype.trim
trim(s) == trimEnd(trimStart(s))

\* Number(...) of a string that is no number
NaN == 0 - 1

\* `${n}` for a number
NumberToString(n) == IF n = NaN THEN "NaN" ELSE ToString(n)

\* ------------------------------------------------- MessageService, logging
\* messages.push(message); a message is its text and, for a search, the term
MessageService_add(msgs, message) == Append(msgs, message)

\* private log(message): messageService.add(`HeroService: ${message}`)
log(msgs, text, arg) ==
    MessageService_add(msgs, [prefix |-> "HeroService: ", text |-> text, arg |-> arg])

\* (mutant) the error is swallowed without a message
handleError_silent(msgs, operation, result, error) ==
    [messages |-> msgs, kind |-> "next", value |-> result]

\* (mutant) the error is logged and thrown again
handleError_rethrow(msgs, operation, result, error) ==
    [messages |-> log(msgs, operation \o " failed: ", error),
     kind |-> "error", value |-> result]

\* handleError(operation, result)(error): log, then of(result as T)
handleError(msgs, operation, result, error) ==
    [messages |-> log(msgs, operation \o " failed: ", error),
     kind |-> "next", value |-> result]

\* ------------------------------------------------------------ observation
\* what a step appended to the message log
Logged == SubSeq(messages', Len(messages) + 1, Len(messages'))

\* the record of a delivery to the subscriber of request rid of operation op
Settlement(rid, op, http, ok, res) ==
    [rid |-> rid, op |-> op, http |-> http, ok |-> ok, kind |-> res.kind,
     value |-> res.value, logged |-> Logged, before |-> heroes, after |-> heroes',
     backs |-> backs' - backs]

\* the record of a call of a component method
Call(op, arg, rids) ==
    [op |-> op, arg |-> arg, rids |-> rids, logged |-> Logged,
     before |-> heroes, after |-> heroes', backs |-> backs' - backs,
     settledBefore |-> Len(settled)]

\* ----------------------------------------------------- HeroService.searchHeroes
\* (mutant) the guard without the trim: !term
searchHeroes_blank_noTrim(term) == term = <<>>

\* the guard of searchHeroes: !term.trim()
searchHeroes_blank(term) == trim(term) = <<>>

\* the request http.get(`${heroesUrl}/?name=${term}`) sends when subscribed
searchHeroes_request(term, rid) ==
    [rid |-> rid, op |-> "searchHeroes", method |-> "GET",
     path |-> heroesUrl \o "/?name=", term |-> term, id |-> 0, body |-> NoBody]

\* pipe(tap(...), catchError(handleError('searchHeroes', [])))
searchHeroes_pipe(msgs, term, resp) ==
    IF resp.ok
    THEN [messages |-> IF Len(resp.body) # 0
                       THEN log(msgs, "found heroes matching ", term)
                       ELSE log(msgs, "no heroes matching ", term),
          kind |-> "next", value |-> resp.body]
    ELSE handleError(msgs, "searchHeroes", <<>>, resp.error)

\* responses the backend may give to a search
SearchBodies == {<<>>, <<[id |-> 1, name |-> <<"a">>]>>}
SearchResponses ==
    {[ok |-> TRUE, body |-> b, error |-> ""] : b \in SearchBodies}
    \cup {[ok |-> FALSE, body |-> <<>>, error |-> e] : e \in Errors}

\* ------------------------------------------------------ HeroSearchComponent
\* (mutant) the quiet period is one clock step
debounceTime_arm_short(t) == TickMs

\* (mutant) a value arriving while the timer runs does not restart it
debounceTime_arm_noRestart(t) == IF t > 0 THEN t ELSE DebounceMs

\* debounceTime(300): a value arriving (re)starts the timer
debounceTime_arm(t) == DebounceMs

\* (mutant) compares the trimmed values
distinctUntilChanged_trimmed(isFirst, prev, value) ==
    isFirst \/ trim(value) # trim(prev)

\* (mutant) the operator left out of the pipe
distinctUntilChanged_absent(isFirst, prev, value) == TRUE

\* distinctUntilChanged(): lets a value through iff it differs from the last
distinctUntilChanged(isFirst, prev, value) == isFirst \/ value # prev

\* (mutant) mergeMap: the previous inner observable stays subscribed
mergeMap_subscribe(subs, rid) == subs \cup {rid}

\* switchMap: subscribing the new inner observable unsubscribes the previous
switchMap_subscribe(subs, rid) == {rid}

\* search(term): searchTerms.next(term)
search(term) ==
    /\ Len(pushes) < MaxPushes
    /\ timer # 0
    /\ timer' = debounceTime_arm(timer)
    /\ lastValue' = [term |-> term, push |-> Len(pushes) + 1]
    /\ pushes' = Append(pushes, [term |-> term, gap |-> sincePush])
    /\ sincePush' = 0
    /\ UNCHANGED <<first, prevKey, innerSubs, emitted, survivors, queries,
                   discarded, sinceQuery>>
    /\ UNCHANGED <<serviceVars, heroesVars, detailVars, calls>>

\* TickMs of time pass with no event
Tick ==
    /\ timer # 0
    /\ timer' = IF timer = NoTimer THEN NoTimer ELSE Max(timer - TickMs, 0)
    /\ sincePush' = Min(sincePush + TickMs, DebounceMs)
    /\ sinceQuery' = Min(sinceQuery + TickMs, DebounceMs)
    /\ UNCHANGED <<lastValue, first, prevKey, innerSubs, emitted, pushes,
                   survivors, queries, discarded>>
    /\ UNCHANGED <<serviceVars, heroesVars, detailVars, calls>>

\* The debounce timer fires: the pending value goes through
\* distinctUntilChanged and switchMap, which calls searchHeroes and subscribes.
DebounceFire ==
    /\ timer = 0
    /\ timer' = NoTimer
    /\ UNCHANGED <<lastValue, sincePush, pushes, discarded, messages>>
    /\ UNCHANGED <<heroesVars, detailVars, calls>>
    /\ LET term == lastValue.term
           pass == distinctUntilChanged(first, prevKey, term)
           rid == nextRid
           q == Len(queries) + 1
       IN /\ survivors' = Append(survivors,
                 [term |-> term, push |-> lastValue.push, queried |-> pass])
          /\ IF ~pass
             THEN UNCHANGED <<first, prevKey, innerSubs, emitted, queries,
                              requests, nextRid, sent, settled, sinceQuery>>
             ELSE /\ first' = FALSE
                  /\ prevKey' = term
                  /\ queries' = Append(queries,
                        [term |-> term, push |-> lastValue.push, rid |-> rid,
                         gap |-> sinceQuery])
                  /\ sinceQuery' = 0
                  /\ nextRid' = nextRid + 1
                  /\ IF searchHeroes_blank(term)
                     THEN \* of([]): delivered and completed on subscription
                          /\ innerSubs' = switchMap_subscribe(innerSubs, rid) \ {rid}
                          /\ emitted' = Append(emitted,
                                [q |-> q, issued |-> Len(queries'), value |-> <<>>])
                          /\ settled' = Append(settled,
                                Settlement(rid, "searchHeroes", FALSE, TRUE,
                                           [kind |-> "next", value |-> <<>>]))
                          /\ UNCHANGED <<requests, sent>>
                     ELSE /\ innerSubs' = switchMap_subscribe(innerSubs, rid)
                          /\ requests' = requests \cup {searchHeroes_request(term, rid)}
                          /\ sent' = Append(sent, searchHeroes_request(term, rid))
                          /\ UNCHANGED <<emitted, settled>>


\* The response to a search whose inner observable is still subscribed
SearchResponse ==
    \E r \in requests, resp \in SearchResponses :
        /\ r.op = "searchHeroes"
        /\ r.rid \in innerSubs
        /\ UNCHANGED <<heroesVars, detailVars, calls>>
        /\ LET term == r.term
               res == searchHeroes_pipe(messages, term, resp)
               q == CHOOSE i \in 1..Len(queries) : queries[i].rid = r.rid
           IN /\ messages' = res.messages
              /\ emitted' = Append(emitted,
                    [q |-> q, issued |-> Len(queries), value |-> res.value])
              /\ settled' = Append(settled, Settlement(r.rid, r.op, TRUE, resp.ok, res))
        /\ requests' = requests \ {r}
        /\ innerSubs' = innerSubs \ {r.rid}
        /\ UNCHANGED <<timer, lastValue, first, prevKey, sincePush, pushes,
                       survivors, queries, discarded, nextRid, sent, sinceQuery>>

\* The response to a search that switchMap has unsubscribed: nobody listens
StaleSearchResponse ==
    \E r \in requests :
        /\ r.op = "searchHeroes"
        /\ r.rid \notin innerSubs
        /\ requests' = requests \ {r}
        /\ discarded' = Append(discarded,
              [rid |-> r.rid, issued |-> Len(queries), emitted |-> Len(emitted)])
        /\ UNCHANGED <<timer, lastValue, first, prevKey, innerSubs, emitted,
                       sincePush, sinceQuery, pushes, survivors, queries>>
        /\ UNCHANGED <<nextRid, messages, sent, settled>>
        /\ UNCHANGED <<heroesVars, detailVars, calls>>

\* ------------------------------------------------------------- HeroService
\* a Hero object: the JSON record plus the identity of the object holding it
Hero(ref, json) == [ref |-> ref, id |-> json.id, name |-> json.name]

\* the objects a parsed JSON array consists of, allocated from ref on
Parsed(list, ref) == [i \in 1..Len(list) |-> Hero(ref + i - 1, list[i])]

\* http.get<Hero[]>(heroesUrl)
getHeroes_request(rid) ==
    [rid |-> rid, op |-> "getHeroes", method |-> "GET",
     path |-> heroesUrl, term |-> <<>>, id |-> 0, body |-> NoBody]

\* pipe(tap(_ => log('fetched heroes')), catchError(handleError('getHeroes', [])))
getHeroes_pipe(msgs, resp) ==
    IF resp.ok
    THEN [messages |-> log(msgs, "fetched heroes", ""),
          kind |-> "next", value |-> resp.body]
    ELSE handleError(msgs, "getHeroes", <<>>, resp.error)

\* http.get<Hero>(`${heroesUrl}/${id}`)
getHero_request(id, rid) ==
    [rid |-> rid, op |-> "getHero", method |-> "GET",
     path |-> heroesUrl \o "/", term |-> <<>>, id |-> id, body |-> NoBody]

\* pipe(tap(_ => log(`fetched hero id=${id}`)),
\*      catchError(handleError(`getHero id=${id}`)))
getHero_pipe(msgs, id, resp) ==
    IF resp.ok
    THEN [messages |-> log(msgs, "fetched hero id=" \o NumberToString(id), ""),
          kind |-> "next", value |-> resp.body]
    ELSE handleError(msgs, "getHero id=" \o NumberToString(id), Undefined, resp.error)

\* http.post<Hero>(heroesUrl, hero, httpOptions)
addHero_request(aHero, rid) ==
    [rid |-> rid, op |-> "addHero", method |-> "POST",
     path |-> heroesUrl, term |-> <<>>, id |-> 0, body |-> aHero]

\* pipe(tap(newHero => log(`added hero w/ id=${newHero.id}`)),
\*      catchError(handleError('addHero')))
addHero_pipe(msgs, resp) ==
    IF resp.ok
    THEN [messages |-> log(msgs, "added hero w/ id=" \o NumberToString(resp.body.id), ""),
          kind |-> "next", value |-> resp.body]
    ELSE handleError(msgs, "addHero", Undefined, resp.error)

\* (mutant) the DELETE addresses the collection, not the record
deleteHero_request_collection(id, rid) ==
    [rid |-> rid, op |-> "deleteHero", method |-> "DELETE",
     path |-> heroesUrl, term |-> <<>>, id |-> 0, body |-> NoBody]

\* http.delete<Hero>(`${heroesUrl}/${id}`, httpOptions)
deleteHero_request(id, rid) ==
    [rid |-> rid, op |-> "deleteHero", method |-> "DELETE",
     path |-> heroesUrl \o "/", term |-> <<>>, id |-> id, body |-> NoBody]

\* pipe(tap(_ => log(`deleted hero id=${id}`)), catchError(handleError('deleteHero')))
deleteHero_pipe(msgs, id, resp) ==
    IF resp.ok
    THEN [messages |-> log(msgs, "deleted hero id=" \o NumberToString(id), ""),
          kind |-> "next", value |-> resp.body]
    ELSE handleError(msgs, "deleteHero", Undefined, resp.error)

\* http.put(heroesUrl, hero, httpOptions)
updateHero_request(aHero, rid) ==
    [rid |-> rid, op |-> "updateHero", method |-> "PUT",
     path |-> heroesUrl, term |-> <<>>, id |-> 0, body |-> aHero]

\* pipe(tap(_ => log(`updated hero id=${hero.id}`)), catchError(handleError('updateHero')))
updateHero_pipe(msgs, aHero, resp) ==
    IF resp.ok
    THEN [messages |-> log(msgs, "updated hero id=" \o NumberToString(aHero.id), ""),
          kind |-> "next", value |-> resp.body]
    ELSE handleError(msgs, "updateHero", Undefined, resp.error)

Failures == {[ok |-> FALSE, body |-> Undefined, error |-> e] : e \in Errors}
Ok(body) == [ok |-> TRUE, body |-> body, error |-> ""]

\* ---------------------------------------------------------- HeroesComponent
ListBodies ==
    {<<>>,
     <<[id |-> 1, name |-> <<"W">>], [id |-> 1, name |-> <<"W">>]>>,
     <<[id |-> 2, name |-> <<"X">>]>>}

\* h !== hero on two values of the list's element type
NotSame(h, aHero) ==
    IF h = Undefined \/ aHero = Undefined THEN h # aHero ELSE h.ref # aHero.ref

\* (mutant) the list is left as it is
heroes_filter_none(list, aHero) == list

\* (mutant) the comparison by id instead of by identity
heroes_filter_byId(list, aHero) ==
    SelectSeq(list, LAMBDA h : h = Undefined \/ h.id # aHero.id)

\* this.heroes.filter(h => h !== hero)
heroes_filter(list, aHero) == SelectSeq(list, LAMBDA h : NotSame(h, aHero))

\* (mutant) the callback puts the record at the front
heroes_unshift(list, h) == <<h>> \o list

\* the subscribe callback of add: this.heroes.push(hero)
heroes_push(list, h) == Append(list, h)

\* calls of add / delete so far
HeroesCalls == Len(SelectSeq(calls, LAMBDA c : c.op \in {"add", "delete"}))

\* ngOnInit(): getHeroes() subscribes heroService.getHeroes()
HeroesInit ==
    /\ ~activated
    /\ activated' = TRUE
    /\ requests' = requests \cup {getHeroes_request(nextRid)}
    /\ sent' = Append(sent, getHeroes_request(nextRid))
    /\ nextRid' = nextRid + 1
    /\ UNCHANGED <<heroes, nextRef, objects, messages, settled, calls>>
    /\ UNCHANGED <<searchVars, detailVars>>

\* the response to getHeroes: heroes => this.heroes = heroes
GetHeroesResponse ==
    \E r \in requests, b \in ListBodies, ok \in BOOLEAN :
        /\ r.op = "getHeroes"
        /\ UNCHANGED <<activated, nextRid, sent, calls>>
        /\ UNCHANGED <<searchVars, detailVars>>
        /\ LET resp == IF ok THEN Ok(Parsed(b, nextRef))
                       ELSE CHOOSE f \in Failures : TRUE
               res == getHeroes_pipe(messages, resp)
           IN /\ ok \/ b = <<>>
              /\ messages' = res.messages
              /\ heroes' = res.value
              /\ nextRef' = IF ok THEN nextRef + Len(b) ELSE nextRef
              /\ objects' = objects \cup Range(res.value)
              /\ settled' = Append(settled, Settlement(r.rid, r.op, TRUE, ok, res))
        /\ requests' = requests \ {r}

\* add(name)
add(name) ==
    /\ activated
    /\ HeroesCalls < MaxCalls
    /\ UNCHANGED <<heroesVars, messages, settled>>
    /\ UNCHANGED <<searchVars, detailVars>>
    /\ LET trimmed == trim(name)
       IN IF trimmed = <<>>
          THEN /\ calls' = Append(calls, Call("add", name, {}))
               /\ UNCHANGED <<requests, sent, nextRid>>
          ELSE /\ requests' = requests \cup {addHero_request([name |-> trimmed], nextRid)}
               /\ sent' = Append(sent, addHero_request([name |-> trimmed], nextRid))
               /\ nextRid' = nextRid + 1
               /\ calls' = Append(calls, Call("add", name, {nextRid}))

\* the response to addHero: hero => { this.heroes.push(hero); }
AddResponse ==
    \E r \in requests, id \in ServerIds, ok \in BOOLEAN :
        /\ r.op = "addHero"
        /\ UNCHANGED <<activated, nextRid, sent, calls>>
        /\ UNCHANGED <<searchVars, detailVars>>
        /\ LET resp == IF ok THEN Ok(Hero(nextRef, [id |-> id, name |-> r.body.name]))
                       ELSE CHOOSE f \in Failures : TRUE
               res == addHero_pipe(messages, resp)
               after == heroes_push(heroes, res.value)
           IN /\ ok \/ id = 1
              /\ messages' = res.messages
              /\ heroes' = after
              /\ nextRef' = IF ok THEN nextRef + 1 ELSE nextRef
              /\ objects' = IF ok THEN objects \cup {res.value} ELSE objects
              /\ settled' = Append(settled, Settlement(r.rid, r.op, TRUE, ok, res))
        /\ requests' = requests \ {r}

\* delete(hero)
delete(h) ==
    /\ activated
    /\ HeroesCalls < MaxCalls
    /\ heroes' = heroes_filter(heroes, h)
    /\ requests' = requests \cup {deleteHero_request(h.id, nextRid)}
    /\ sent' = Append(sent, deleteHero_request(h.id, nextRid))
    /\ nextRid' = nextRid + 1
    /\ UNCHANGED <<activated, nextRef, objects, messages, settled>>
    /\ UNCHANGED <<searchVars, detailVars>>
    /\ calls' = Append(calls, Call("delete", h, {nextRid}))

\* the response to deleteHero: subscribe() with no callback
DeleteResponse ==
    \E r \in requests, ok \in BOOLEAN :
        /\ r.op = "deleteHero"
        /\ UNCHANGED <<heroesVars, nextRid, sent, calls>>
        /\ UNCHANGED <<searchVars, detailVars>>
        /\ LET resp == IF ok THEN Ok(NoBody) ELSE CHOOSE f \in Failures : TRUE
               res == deleteHero_pipe(messages, r.id, resp)
           IN /\ messages' = res.messages
              /\ settled' = Append(settled, Settlement(r.rid, r.op, TRUE, ok, res))
        /\ requests' = requests \ {r}

\* ------------------------------------------------------ HeroDetailComponent
Digits == <<"0", "1", "2", "3", "4", "5", "6", "7", "8", "9">>
DigitValue(c) == (CHOOSE i \in 1..10 : Digits[i] = c) - 1

\* Number(string | null) on the route parameters of the model
RECURSIVE Number(_)
Number(str) ==
    IF str = <<>> THEN 0
    ELSE IF \E i \in 1..Len(str) : str[i] \notin Range(Digits) THEN NaN
    ELSE 10 * Number(SubSeq(str, 1, Len(str) - 1)) + DigitValue(str[Len(str)])

RouteParams == {<<>>, <<"1">>, <<"1", "2">>, <<"x">>}

\* ngOnInit(): getHero() subscribes heroService.getHero(id)
DetailInit ==
    \E param \in RouteParams :
        /\ ~detailInit
        /\ detailInit' = TRUE
        /\ LET id == Number(param)
           IN /\ requests' = requests \cup {getHero_request(id, nextRid)}
              /\ sent' = Append(sent, getHero_request(id, nextRid))
        /\ nextRid' = nextRid + 1
        /\ UNCHANGED <<hero, backs, messages, settled, calls>>
        /\ UNCHANGED <<searchVars, heroesVars>>

\* the response to getHero: hero => this.hero = hero
GetHeroResponse ==
    \E r \in requests, ok \in BOOLEAN :
        /\ r.op = "getHero"
        /\ UNCHANGED <<detailInit, backs, nextRid, sent, calls>>
        /\ UNCHANGED <<searchVars, heroesVars>>
        /\ LET resp == IF ok THEN Ok([id |-> r.id, name |-> <<"W">>])
                       ELSE CHOOSE f \in Failures : TRUE
               res == getHero_pipe(messages, r.id, resp)
           IN /\ messages' = res.messages
              /\ hero' = res.value
              /\ settled' = Append(settled, Settlement(r.rid, r.op, TRUE, ok, res))
        /\ requests' = requests \ {r}

\* calls of save / goBack so far
DetailCalls == Len(SelectSeq(calls, LAMBDA c : c.op \in {"save", "goBack"}))

\* this.location.back()
Location_back(n) == n + 1

\* goBack(), from the view's back button
goBack ==
    /\ detailInit
    /\ DetailCalls < MaxSaves
    /\ backs' = Location_back(backs)
    /\ UNCHANGED <<detailInit, hero, serviceVars>>
    /\ UNCHANGED <<searchVars, heroesVars>>
    /\ calls' = Append(calls, Call("goBack", Undefined, {}))

\* (mutant) save without its guard
save_loaded_always(h) == TRUE

\* the guard of save: if (this.hero)
save_loaded(h) == h # Undefined

\* save()
save ==
    /\ detailInit
    /\ DetailCalls < MaxSaves
    /\ UNCHANGED <<detailVars, messages, settled>>
    /\ UNCHANGED <<searchVars, heroesVars>>
    /\ IF save_loaded(hero)
       THEN /\ requests' = requests \cup {updateHero_request(hero, nextRid)}
            /\ sent' = Append(sent, updateHero_request(hero, nextRid))
            /\ nextRid' = nextRid + 1
            /\ calls' = Append(calls, Call("save", hero, {nextRid}))
       ELSE /\ calls' = Append(calls, Call("save", hero, {}))
            /\ UNCHANGED <<requests, sent, nextRid>>

\* the response to updateHero: () => this.goBack(), the next callback
UpdateResponse ==
    \E r \in requests, ok \in BOOLEAN :
        /\ r.op = "updateHero"
        /\ UNCHANGED <<detailInit, hero, nextRid, sent, calls>>
        /\ UNCHANGED <<searchVars, heroesVars>>
        /\ LET resp == IF ok THEN Ok(NoBody) ELSE CHOOSE f \in Failures : TRUE
               res == updateHero_pipe(messages, r.body, resp)
           IN /\ messages' = res.messages
              /\ backs' = IF res.kind = "next" THEN Location_back(backs) ELSE backs
              /\ settled' = Append(settled, Settlement(r.rid, r.op, TRUE, ok, res))
        /\ requests' = requests \ {r}

\* ------------------------------------------------------------ specification
Init ==
    /\ timer = NoTimer
    /\ lastValue = [term |-> <<>>, push |-> 0]
    /\ first = TRUE
    /\ prevKey = <<>>
    /\ innerSubs = {}
    /\ emitted = <<>>
    /\ requests = {}
    /\ nextRid = 1
    /\ messages = <<>>
    /\ activated = FALSE
    /\ heroes = <<>>
    /\ nextRef = 1
    /\ objects = {}
    /\ detailInit = FALSE
    /\ hero = Undefined
    /\ backs = 0
    /\ sincePush = DebounceMs
    /\ sinceQuery = DebounceMs
    /\ pushes = <<>>
    /\ survivors = <<>>
    /\ queries = <<>>
    /\ discarded = <<>>
    /\ sent = <<>>
    /\ calls = <<>>
    /\ settled = <<>>

NextSearch ==
    \/ \E term \in Terms : search(term)
    \/ Tick
    \/ DebounceFire
    \/ SearchResponse
    \/ StaleSearchResponse

SpecSearch == Init /\ [][NextSearch]_vars

NextHeroes ==
    \/ HeroesInit
    \/ GetHeroesResponse
    \/ \E name \in Names : add(name)
    \/ AddResponse
    \/ \E h \in objects : delete(h)
    \/ DeleteResponse

SpecHeroes == Init /\ [][NextHeroes]_vars

NextDetail ==
    \/ DetailInit
    \/ GetHeroResponse
    \/ save
    \/ goBack
    \/ UpdateResponse

SpecDetail == Init /\ [][NextDetail]_vars

\* the three components on one HeroService and one MessageService
Events ==
    Len(pushes) + Len(calls) + (IF activated THEN 1 ELSE 0)
        + (IF detailInit THEN 1 ELSE 0)
Budget == Events < MaxEvents

Next ==
    \/ \E term \in Terms : Budget /\ search(term)
    \/ Tick
    \/ DebounceFire
    \/ SearchResponse
    \/ StaleSearchResponse
    \/ Budget /\ HeroesInit
    \/ GetHeroesResponse
    \/ \E name \in Names : Budget /\ add(name)
    \/ AddResponse
    \/ \E h \in objects : Budget /\ delete(h)
    \/ DeleteResponse
    \/ Budget /\ DetailInit
    \/ GetHeroResponse
    \/ Budget /\ save
    \/ Budget /\ goBack
    \/ UpdateResponse

Spec == Init /\ [][Next]_vars

\* the list view and the detail view on one HeroService
ViewBudget == Events < MaxViewEvents

NextViews ==
    \/ ViewBudget /\ HeroesInit
    \/ GetHeroesResponse
    \/ \E name \in Names : ViewBudget /\ add(name)
    \/ AddResponse
    \/ \E h \in objects : ViewBudget /\ delete(h)
    \/ DeleteResponse
    \/ ViewBudget /\ DetailInit
    \/ GetHeroResponse
    \/ ViewBudget /\ save
    \/ ViewBudget /\ goBack
    \/ UpdateResponse

SpecViews == Init /\ [][NextViews]_vars

\* ------------------------------------------------------------------ claims
SearchRequests == {r \in requests : r.op = "searchHeroes"}

\* C1: every result the subscriber of heroes$ receives is the result of the
\* query issued most recently at the moment of delivery: a result of query A
\* is never forwarded once a later query B has been issued, whichever of the
\* two responses arrives first; and no query delivers more than one result.
C1_OnlyLatestResult ==
    /\ \A i \in 1..Len(emitted) : emitted[i].q = emitted[i].issued
    /\ \A i, j \in 1..Len(emitted) : i < j => emitted[i].q < emitted[j].q

\* C1 witness: A's response arrived unsubscribed after B's result was
\* delivered, and A's result is not among the results delivered.
C1_Witness ==
    \E d \in Range(discarded) :
        /\ d.emitted >= 1
        /\ emitted[d.emitted].q > 1
        /\ \E a \in 1..Len(queries) :
              /\ queries[a].rid = d.rid
              /\ a < emitted[d.emitted].q
              /\ \A i \in 1..Len(emitted) : emitted[i].q # a

\* C2 as stated: at most one search request is issued and not yet answered.
C2_Original == Cardinality(SearchRequests) <= 1

\* C2 (amended): at most one issued search is still awaited by the pipeline,
\* i.e. at most one inner observable is subscribed, and it is the one of the
\* query issued last; requests of earlier queries may still be in flight.
C2_AtMostOneSubscribed ==
    /\ Cardinality(innerSubs) <= 1
    /\ \A rid \in innerSubs :
          /\ \E r \in SearchRequests : r.rid = rid
          /\ queries[Len(queries)].rid = rid

\* C2 witness: two search requests in flight, one of them subscribed.
C2_Witness ==
    /\ Cardinality(SearchRequests) >= 2
    /\ Cardinality(innerSubs) = 1

\* push p is the last push of its burst
LastOfBurst(p) == p = Len(pushes) \/ pushes[p + 1].gap >= DebounceMs

\* push p is the last push of a burst that 300ms of silence have followed
\* (and whose timer callback, due at that instant, has run)
BurstOver(p) ==
    /\ LastOfBurst(p)
    /\ p < Len(pushes) \/ (sincePush >= DebounceMs /\ timer # 0)

\* the pushes among 1..n whose burst is over, in order
RECURSIVE BurstsOver(_)
BurstsOver(n) ==
    IF n = 0 THEN <<>>
    ELSE IF BurstOver(n) THEN Append(BurstsOver(n - 1), n) ELSE BurstsOver(n - 1)

\* C3: the values debounceTime emits are exactly the last terms of the bursts
\* that are over, in order; every searchHeroes invocation is made for such a
\* term, so a term pushed less than 300ms before the next push never
\* produces a query, not even later.
C3_OnlyLastOfBurst ==
    /\ [i \in 1..Len(survivors) |-> survivors[i].push]
          = BurstsOver(Len(pushes))
    /\ \A i \in 1..Len(survivors) :
          survivors[i].term = pushes[survivors[i].push].term
    /\ \A i \in 1..Len(queries) :
          /\ \E j \in 1..Len(survivors) : survivors[j].push = queries[i].push
          /\ queries[i].term = pushes[queries[i].push].term
          /\ LastOfBurst(queries[i].push)

\* C3 witness: a query was made for the last term of a burst of three pushes.
C3_Witness ==
    \E i \in 1..Len(queries) :
        LET p == queries[i].push
        IN /\ p >= 3
           /\ pushes[p].gap < DebounceMs
           /\ pushes[p - 1].gap < DebounceMs

AllSpaced == \A i \in 1..Len(pushes) : pushes[i].gap >= DebounceMs
AllDistinct ==
    \A i, j \in 1..Len(pushes) : i # j => pushes[i].term # pushes[j].term

\* C4: when all pushes are at least 300ms apart and pairwise distinct, the
\* searchHeroes invocations are the pushed terms, one each, in push order
\* (all pushes but the latest while its 300ms have not elapsed).
C4_EveryTermOnceInOrder ==
    (AllSpaced /\ AllDistinct) =>
        LET n == IF BurstOver(Len(pushes)) \/ Len(pushes) = 0
                 THEN Len(pushes) ELSE Len(pushes) - 1
        IN /\ Len(queries) = n
           /\ \A i \in 1..n :
                 queries[i].push = i /\ queries[i].term = pushes[i].term

\* C4 witness: three spaced, distinct terms, among them "" and " ", each queried.
C4_Witness ==
    /\ AllSpaced /\ AllDistinct
    /\ Len(queries) >= 3
    /\ \E i, j \in 1..Len(queries) :
          queries[i].term = <<>> /\ queries[j].term = <<" ">>

\* C5: a value that survives the debounce and equals the value that survived
\* it immediately before produces no searchHeroes invocation; no two
\* consecutive invocations have the same term.
C5_NoRepeatedQuery ==
    /\ \A i \in 2..Len(survivors) :
          survivors[i].term = survivors[i - 1].term => ~survivors[i].queried
    /\ \A i \in 1..Len(survivors) :
          survivors[i].queried <=>
              \E j \in 1..Len(queries) : queries[j].push = survivors[i].push
    /\ \A i \in 2..Len(queries) : queries[i].term # queries[i - 1].term

\* C5 witness: a repeated survivor was suppressed although another term was
\* pushed (and discarded by the debounce) in between.
C5_Witness ==
    \E i \in 2..Len(survivors) :
        /\ survivors[i].term = survivors[i - 1].term
        /\ survivors[i].push > survivors[i - 1].push + 1
        /\ \E p \in (survivors[i - 1].push + 1)..(survivors[i].push - 1) :
              pushes[p].term # survivors[i].term
        /\ ~survivors[i].queried

NameFilterGet(term, rid) ==
    [rid |-> rid, op |-> "searchHeroes", method |-> "GET",
     path |-> "api/heroes/?name=", term |-> term, id |-> 0, body |-> NoBody]

\* C6: a searchHeroes invocation with an empty or all-whitespace term sends
\* no request, has delivered the empty list once its step is over and logs
\* nothing; an invocation with any other term sends exactly one GET with
\* the name filter carrying the term.
C6_BlankSearch ==
    \A i \in 1..Len(queries) :
        LET q == queries[i]
            isBlank == \A k \in 1..Len(q.term) : q.term[k] \in {" ", "\t"}
            reqs == {k \in 1..Len(sent) : sent[k].rid = q.rid}
        IN IF isBlank
           THEN /\ reqs = {}
                /\ \E k \in 1..Len(emitted) :
                      emitted[k].q = i /\ emitted[k].value = <<>>
                /\ \E k \in 1..Len(settled) :
                      /\ settled[k].rid = q.rid
                      /\ settled[k].logged = <<>>
                      /\ settled[k].kind = "next"
                /\ \A k \in 1..Len(settled) :
                      settled[k].rid = q.rid => settled[k].logged = <<>>
           ELSE /\ Cardinality(reqs) = 1
                /\ \A k \in reqs : sent[k] = NameFilterGet(q.term, q.rid)

\* C6 witness: a whitespace-only term was searched after a request was sent.
C6_Witness ==
    \E i \in 2..Len(queries) :
        /\ queries[i].term = <<" ">>
        /\ Len(sent) >= 1
        /\ messages # <<>>

ReadOps == {"getHeroes", "searchHeroes", "getHero"}
Fallback(op) == IF op = "getHero" THEN Undefined ELSE <<>>
FailedReads == {k \in 1..Len(settled) : settled[k].op \in ReadOps /\ ~settled[k].ok}

\* C7: a transport failure of getHeroes, searchHeroes or getHero is delivered
\* to the subscriber as a normal value, the empty list or undefined, never as
\* an error notification, and appends exactly one message to the log, the
\* "<operation> failed" message (no success message for that call).
C7_FailureFallback ==
    \A k \in FailedReads :
        LET d == settled[k]
        IN /\ d.kind = "next"
           /\ d.value = Fallback(d.op)
           /\ d.op = "getHeroes" => d.after = <<>>
           /\ Len(d.logged) = 1
           /\ d.logged[1].prefix = "HeroService: "
           /\ d.logged[1].text \in
                 {"getHeroes failed: ", "searchHeroes failed: ",
                  "getHero id=0 failed: ", "getHero id=1 failed: ",
                  "getHero id=12 failed: ", "getHero id=NaN failed: "}
           /\ d.logged[1].arg \in Errors

\* C7 witness: a search failed and so did the list or the detail request.
C7_Witness ==
    /\ \E k \in FailedReads : settled[k].op = "searchHeroes"
    /\ \E k \in FailedReads : settled[k].op # "searchHeroes"
    /\ Len(messages) = 2

IsBlank(str) == \A i \in 1..Len(str) : str[i] \in {" ", "\t"}

\* t is str without its leading and trailing whitespace
IsTrimOf(t, str) ==
    /\ t # <<>> => ~IsBlank(<<t[1]>>) /\ ~IsBlank(<<t[Len(t)]>>)
    /\ \E i \in 0..Len(str), j \in 0..Len(str) :
          /\ i + Len(t) + j = Len(str)
          /\ IsBlank(SubSeq(str, 1, i))
          /\ SubSeq(str, i + 1, i + Len(t)) = t
          /\ IsBlank(SubSeq(str, Len(str) - j + 1, Len(str)))

SentBy(rids) == {k \in 1..Len(sent) : sent[k].rid \in rids}

\* C8: add(name) with a blank name sends nothing and leaves the list and the
\* log as they are; otherwise it sends exactly one POST of {name: trimmed
\* name}, and the successful response appends exactly one entry, the record
\* the server returned with the id it assigned, at the end of the list.
C8_AddAppendsOne ==
    /\ \A k \in 1..Len(calls) :
          LET c == calls[k]
          IN c.op = "add" =>
                IF IsBlank(c.arg)
                THEN c.rids = {} /\ c.after = c.before /\ c.logged = <<>>
                ELSE /\ Cardinality(c.rids) = 1
                     /\ Cardinality(SentBy(c.rids)) = 1
                     /\ \A i \in SentBy(c.rids) :
                           /\ sent[i].method = "POST"
                           /\ sent[i].path = "api/heroes"
                           /\ DOMAIN sent[i].body = {"name"}
                           /\ IsTrimOf(sent[i].body.name, c.arg)
                     /\ c.after = c.before /\ c.logged = <<>>
    /\ \A k \in 1..Len(settled) :
          LET d == settled[k]
          IN (d.op = "addHero" /\ d.ok) =>
                /\ Len(d.after) = Len(d.before) + 1
                /\ SubSeq(d.after, 1, Len(d.before)) = d.before
                /\ d.after[Len(d.after)] = d.value
                /\ d.value.id \in ServerIds
                /\ \A i \in SentBy({d.rid}) : d.value.name = sent[i].body.name
                /\ \A i \in 1..Len(d.before) :
                      d.before[i] # Undefined => d.before[i].ref # d.value.ref

\* C8 witness: a padded name was added to a list that was not empty.
C8_Witness ==
    \E k \in 1..Len(settled) :
        /\ settled[k].op = "addHero" /\ settled[k].ok
        /\ settled[k].before # <<>>
        /\ \E j \in 1..Len(calls) :
              /\ calls[j].op = "add"
              /\ calls[j].arg = <<" ", "W", " ">>
              /\ settled[k].rid \in calls[j].rids

\* C9 as stated: a failed add leaves the local list as it was, and the list
\* never holds an undefined entry.
C9_FailedAddKeepsList ==
    /\ \A k \in 1..Len(settled) :
          (settled[k].op = "addHero" /\ ~settled[k].ok) =>
              settled[k].after = settled[k].before
    /\ \A i \in 1..Len(heroes) : heroes[i] # Undefined

\* where record is in list, by identity
Positions(list, record) ==
    {i \in 1..Len(list) : list[i] # Undefined /\ list[i].ref = record.ref}

RemoveAt(list, i) == SubSeq(list, 1, i - 1) \o SubSeq(list, i + 1, Len(list))

\* C10: delete(record) removes from the list the one element that is the same
\* object as record and keeps all others in order, also those with the id of
\* record; a record that is not in the list removes nothing.
C10_DeleteByIdentity ==
    \A k \in 1..Len(calls) :
        LET c == calls[k]
            at == Positions(c.before, c.arg)
        IN c.op = "delete" =>
              /\ Cardinality(at) <= 1
              /\ \A i \in at : c.after = RemoveAt(c.before, i)
              /\ at = {} => c.after = c.before

\* C10 witness: the record deleted had a twin in the list with the same id
\* and name, which stayed.
C10_Witness ==
    \E k \in 1..Len(calls) :
        LET c == calls[k]
        IN /\ c.op = "delete"
           /\ Positions(c.before, c.arg) # {}
           /\ \E i \in 1..Len(c.after) :
                 /\ c.after[i] # Undefined
                 /\ c.after[i].id = c.arg.id
                 /\ c.after[i].name = c.arg.name

SaveCalls == {k \in 1..Len(calls) : calls[k].op = "save"}
LoadedSaves == {k \in SaveCalls : calls[k].arg # Undefined}
UnloadedSaves == {k \in SaveCalls : calls[k].arg = Undefined}
BackCalls == {k \in 1..Len(calls) : calls[k].op = "goBack"}
Updates == {k \in 1..Len(settled) : settled[k].op = "updateHero"}

\* C11: save() with a record loaded sends exactly one PUT of the record and
\* does not navigate; the response to that PUT, success or swallowed failure
\* alike, navigates back exactly once; nothing else navigates but goBack().
C11_SaveNavigatesOnSettle ==
    /\ \A k \in LoadedSaves :
          LET c == calls[k]
          IN /\ Cardinality(c.rids) = 1
             /\ Cardinality(SentBy(c.rids)) = 1
             /\ \A i \in SentBy(c.rids) :
                   /\ sent[i].method = "PUT"
                   /\ sent[i].path = "api/heroes"
                   /\ sent[i].body = c.arg
             /\ c.backs = 0
             /\ \A rid \in c.rids :
                   Cardinality({r \in requests : r.rid = rid})
                       + Cardinality({j \in Updates : settled[j].rid = rid}) = 1
    /\ \A j \in Updates :
          /\ settled[j].backs = 1
          /\ settled[j].kind = "next"
          /\ \E k \in LoadedSaves : settled[j].rid \in calls[k].rids
    /\ backs = Cardinality(Updates) + Cardinality(BackCalls)

\* C11 witness: one update succeeded, one failed, and both navigated back.
C11_Witness ==
    /\ \E j \in Updates : settled[j].ok
    /\ \E j \in Updates : ~settled[j].ok
    /\ backs = 2

\* C13: save() while no record is loaded sends no request, logs nothing and
\* does not navigate; every PUT sent belongs to a save() with a record.
C13_SaveWithoutRecord ==
    /\ \A k \in UnloadedSaves :
          /\ calls[k].rids = {}
          /\ calls[k].logged = <<>>
          /\ calls[k].backs = 0
    /\ Cardinality({i \in 1..Len(sent) : sent[i].method = "PUT"})
          = Cardinality(LoadedSaves)
    /\ (LoadedSaves = {} /\ BackCalls = {}) => backs = 0

\* C13 witness: save() was called before the getHero result arrived and again
\* after getHero had failed, and nothing was sent, logged by it or navigated.
C13_Witness ==
    /\ \E k \in UnloadedSaves : calls[k].settledBefore = 0
    /\ \E k \in UnloadedSaves :
          /\ calls[k].settledBefore = 1
          /\ settled[1].op = "getHero" /\ ~settled[1].ok
    /\ backs = 0
    /\ Len(sent) = 1
    /\ Len(messages) = 1

DeleteCalls == {k \in 1..Len(calls) : calls[k].op = "delete"}
IssuingAdds == {k \in 1..Len(calls) : calls[k].op = "add" /\ calls[k].rids # {}}
SentOf(op) == {i \in 1..Len(sent) : sent[i].op = op}
Activations(flag) == IF flag THEN 1 ELSE 0

\* C12: every request sent belongs to one subscription made by a component
\* action, and every such action subscribes once: each delete(record) sends
\* exactly one DELETE for record.id, in the list or not; each activation of
\* the list view and of the detail view sends exactly one GET; each save()
\* with a record loaded sends exactly one PUT; nothing else is sent.
C12_OneRequestPerSubscription ==
    /\ \A k \in DeleteCalls :
          LET c == calls[k]
          IN /\ Cardinality(c.rids) = 1
             /\ Cardinality(SentBy(c.rids)) = 1
             /\ \A i \in SentBy(c.rids) :
                   /\ sent[i].method = "DELETE"
                   /\ sent[i].path = "api/heroes/"
                   /\ sent[i].id = c.arg.id
    /\ Cardinality(SentOf("getHeroes")) = Activations(activated)
    /\ \A i \in SentOf("getHeroes") :
          sent[i].method = "GET" /\ sent[i].path = "api/heroes"
    /\ Cardinality(SentOf("getHero")) = Activations(detailInit)
    /\ \A i \in SentOf("getHero") :
          sent[i].method = "GET" /\ sent[i].path = "api/heroes/"
    /\ \A k \in LoadedSaves :
          /\ Cardinality(SentBy(calls[k].rids)) = 1
          /\ \A i \in SentBy(calls[k].rids) : sent[i].method = "PUT"
    /\ Len(sent) = Activations(activated) + Activations(detailInit)
                      + Cardinality(DeleteCalls) + Cardinality(IssuingAdds)
                      + Cardinality(LoadedSaves)
    /\ \A i, j \in 1..Len(sent) : sent[i].rid = sent[j].rid => i = j

\* C12 witness: delete was called on a record that was no longer in the
\* list, and one DELETE for its id was sent all the same.
C12_Witness ==
    \E k \in DeleteCalls :
        LET c == calls[k]
        IN /\ Positions(c.before, c.arg) = {}
           /\ \E i \in SentBy(c.rids) :
                 sent[i].method = "DELETE" /\ sent[i].id = c.arg.id
           /\ Cardinality(SentOf("deleteHero")) = 2

Deletes == {k \in 1..Len(settled) : settled[k].op = "deleteHero"}

\* C14: delete(record) leaves the list without the record in the step of the
\* call; the response to its DELETE, success or failure, leaves the list as
\* it is, and the record is not in the list after it.
C14_DeleteIsLocalAndFinal ==
    /\ \A k \in DeleteCalls :
          /\ Positions(calls[k].after, calls[k].arg) = {}
          /\ calls[k].logged = <<>>
    /\ \A j \in Deletes :
          /\ settled[j].after = settled[j].before
          /\ \A k \in DeleteCalls :
                settled[j].rid \in calls[k].rids =>
                    Positions(settled[j].after, calls[k].arg) = {}

\* C14 witness: a record in the list was deleted, its DELETE failed, and the
\* list, still holding other records, stayed without it.
C14_Witness ==
    \E j \in Deletes, k \in DeleteCalls :
        /\ ~settled[j].ok
        /\ settled[j].rid \in calls[k].rids
        /\ Positions(calls[k].before, calls[k].arg) # {}
        /\ settled[j].after # <<>>

\* C15: every searchHeroes invocation of the pipeline after the first comes
\* at least 300ms after the one before it, whatever the timing of the pushes.
C15_QueriesSpaced ==
    \A q \in 2..Len(queries) : queries[q].gap >= DebounceMs

\* C15 witness: a second invocation was made for the last term of a burst of
\* pushes that came after the first invocation.
C15_Witness ==
    /\ Len(queries) >= 2
    /\ queries[2].push > queries[1].push + 1
    /\ pushes[queries[1].push + 1].gap = DebounceMs
    /\ pushes[queries[2].push].gap < DebounceMs
    /\ queries[2].gap = DebounceMs

\* the texts of a message sequence
Texts(msgs) == [i \in 1..Len(msgs) |-> msgs[i].text]

\* what the deliveries settled[1..n] logged, in order
RECURSIVE LoggedUpTo(_)
LoggedUpTo(n) ==
    IF n = 0 THEN <<>> ELSE LoggedUpTo(n - 1) \o Texts(settled[n].logged)

IdTexts == {NumberToString(n) : n \in {NaN, 0, 1, 2, 12}}

SuccessTexts(op) ==
    CASE op = "getHeroes" -> {"fetched heroes"}
      [] op = "searchHeroes" -> {"found heroes matching ", "no heroes matching "}
      [] op = "getHero" -> {"fetched hero id=" \o t : t \in IdTexts}
      [] op = "addHero" -> {"added hero w/ id=" \o t : t \in IdTexts}
      [] op = "deleteHero" -> {"deleted hero id=" \o t : t \in IdTexts}
      [] op = "updateHero" -> {"updated hero id=" \o t : t \in IdTexts}

FailureTexts(op) ==
    IF op = "getHero"
    THEN {"getHero id=" \o t \o " failed: " : t \in IdTexts}
    ELSE {op \o " failed: "}

HttpSettled == {k \in 1..Len(settled) : settled[k].http}

\* C16: the message log is, at every moment, what the deliveries made so far
\* appended, in order (nothing removed or rewritten); every delivery of an
\* operation that sent a request appended exactly one message, prefixed
\* "HeroService: ": the success message of the operation if the request
\* succeeded, its "<operation> failed" message if not; no component call and
\* no delivery without a request appended anything.
C16_OneMessagePerSettlement ==
    /\ Texts(messages) = LoggedUpTo(Len(settled))
    /\ Len(messages) = Cardinality(HttpSettled)
    /\ \A k \in HttpSettled :
          LET d == settled[k]
          IN /\ Len(d.logged) = 1
             /\ d.logged[1].prefix = "HeroService: "
             /\ IF d.ok THEN d.logged[1].text \in SuccessTexts(d.op)
                        ELSE d.logged[1].text \in FailureTexts(d.op)
    /\ \A k \in 1..Len(settled) : ~settled[k].http => settled[k].logged = <<>>
    /\ \A k \in 1..Len(calls) : calls[k].logged = <<>>
    /\ \A i \in 1..Len(messages) : messages[i].prefix = "HeroService: "

\* C16 witness: one operation succeeded and another failed, and the log holds
\* the success message of the one followed by the failure message of the other.
C16_Witness ==
    /\ Len(settled) = 2
    /\ settled[1].http /\ settled[1].ok
    /\ settled[2].http /\ ~settled[2].ok
    /\ settled[1].op # settled[2].op
    /\ Len(messages) = 2
    /\ messages[1].text \in SuccessTexts(settled[1].op)
    /\ messages[2].text \in FailureTexts(settled[2].op)

AddedOk == {k \in 1..Len(settled) : settled[k].op = "addHero" /\ settled[k].ok}
DeletedRecord(record) ==
    \E k \in DeleteCalls : calls[k].arg.ref = record.ref

\* C17 as stated: a record a successful add appended is in the list unless
\* delete was called on it, and a record delete was called on is not in the
\* list, whenever the list response arrives.
C17_LocalEffectsSurvive ==
    /\ \A k \in AddedOk :
          DeletedRecord(settled[k].value)
              \/ Positions(heroes, settled[k].value) # {}
    /\ \A k \in DeleteCalls : Positions(heroes, calls[k].arg) = {}
====
